---------------------------- MODULE Spec2Model ----------------------------
(***************************************************************************)
(* A model of aws_ssh_client.py: the AWSSSHClient session (connect,        *)
(* execute_command, the cleanup in main and in the context manager), the   *)
(* listing parser list_directory, the size parser _parse_size and the      *)
(* aggregation get_directory_summary.                                      *)
(*                                                                         *)
(* Strings are sequences of one-character strings.  A Python float is an   *)
(* IEEE 754 binary64 number: a mantissa of at most 53 bits, held in limbs, *)
(* and a power of two; every operation rounds its exact result to the      *)
(* nearest such number.                                                    *)
(***************************************************************************)
EXTENDS Integers, Sequences, FiniteSets, TLC

VARIABLES
    size_str,   \* the argument of a _parse_size call
    parsed,     \* what that call did: Pending, or returned / raised
    client,     \* self.client
    rows,       \* the lines the remote's listing is made of
    remote,     \* what the remote side does with the listing command
    files,      \* what list_directory returned: Pending before the call
    total_size, \* the byte total of get_directory_summary's loop
    summary,    \* what get_directory_summary returned
    sftp,       \* self.sftp
    mode,       \* how the client is used: by main, or in a with block
    pc,         \* where that use stands
    exc,        \* the exception propagating, if any
    returned,   \* what the last execute_command returned
    commands,   \* the commands run so far
    cause,      \* how the try block or with block was left
    closing,    \* what the call of close() in the cleanup did
    connects    \* what each connect() call on the client returned, in order

sizeVars == <<size_str, parsed>>
listVars == <<client, rows, remote, files>>
sumVars == <<total_size, summary>>
useVars == <<sftp, mode, pc, exc, returned, commands, cause, closing,
             connects>>
vars == <<size_str, parsed, client, rows, remote, files, total_size, summary,
          sftp, mode, pc, exc, returned, commands, cause, closing,
          connects>>

(***************************************************************************)
(* Bounds of the model.                                                    *)
(***************************************************************************)
MaxTokLen == 3      \* longest size token of the exhaustive token set

(***************************************************************************)
(* Natural numbers of any size: a sequence of limbs of LimbBits bits, most *)
(* significant first, without a leading zero limb; zero is <<>>.  No       *)
(* product or sum of limbs leaves the range of the model checker's         *)
(* integers.                                                               *)
(***************************************************************************)
LimbBits == 15

RECURSIVE Pow2(_)
Pow2(n) == IF n = 0 THEN 1 ELSE 2 * Pow2(n - 1)

LimbBase == Pow2(LimbBits)

Front(s) == SubSeq(s, 1, Len(s) - 1)
Last(s) == s[Len(s)]

RECURSIVE NatNorm(_)
NatNorm(a) == IF a # <<>> /\ Head(a) = 0 THEN NatNorm(Tail(a)) ELSE a

\* the natural number n, for an integer n >= 0
RECURSIVE Nat15(_)
Nat15(n) == IF n = 0 THEN <<>> ELSE Nat15(n \div LimbBase) \o <<n % LimbBase>>

\* a + b + c for a carry c of 0 or 1
RECURSIVE NatAddC(_, _, _)
NatAddC(a, b, c) ==
    IF c = 0 /\ a = <<>> /\ b = <<>> THEN <<>>
    ELSE IF a = <<>> /\ b = <<>> THEN <<c>>
    ELSE LET x == (IF a = <<>> THEN 0 ELSE Last(a))
                  + (IF b = <<>> THEN 0 ELSE Last(b)) + c
         IN  NatAddC(IF a = <<>> THEN <<>> ELSE Front(a),
                     IF b = <<>> THEN <<>> ELSE Front(b),
                     x \div LimbBase)
             \o <<x % LimbBase>>

NatAdd(a, b) == NatNorm(NatAddC(a, b, 0))

\* a * k + c for a carry 0 <= c < LimbBase
RECURSIVE NatMulC(_, _, _)
NatMulC(a, k, c) ==
    IF c = 0 /\ a = <<>> THEN <<>>
    ELSE IF a = <<>> THEN <<c>>
    ELSE LET x == Last(a) * k + c
         IN  NatMulC(Front(a), k, x \div LimbBase) \o <<x % LimbBase>>

\* a * k for an integer 0 <= k < LimbBase
NatMul(a, k) == NatNorm(NatMulC(a, k, 0))

\* long division of a by d, with the remainder r < d brought down
RECURSIVE NatDivRec(_, _, _)
NatDivRec(a, d, r) ==
    IF r < d /\ a = <<>> THEN [q |-> <<>>, r |-> r]
    ELSE LET cur  == r * LimbBase + Head(a)
             rest == NatDivRec(Tail(a), d, cur % d)
         IN  [q |-> <<cur \div d>> \o rest.q, r |-> rest.r]

\* quotient and remainder of a by an integer 0 < d <= LimbBase
NatDiv(a, d) ==
    LET qr == NatDivRec(a, d, 0)
    IN  [q |-> NatNorm(qr.q), r |-> qr.r]

RECURSIVE NatCmpRec(_, _)
NatCmpRec(a, b) ==
    IF a = <<>> THEN 0
    ELSE IF Head(a) # Head(b) THEN (IF Head(a) < Head(b) THEN -1 ELSE 1)
    ELSE NatCmpRec(Tail(a), Tail(b))

\* -1, 0 or 1 as a < b, a = b, a > b
NatCmp(a, b) ==
    IF Len(a) # Len(b) THEN (IF Len(a) < Len(b) THEN -1 ELSE 1)
    ELSE NatCmpRec(a, b)

NatOdd(a) == a # <<>> /\ Last(a) % 2 = 1

\* the number of bits of an integer 0 <= n < LimbBase
RECURSIVE SmallBits(_)
SmallBits(n) == IF n = 0 THEN 0 ELSE 1 + SmallBits(n \div 2)

\* the number of bits of a
NatBits(a) ==
    IF a = <<>> THEN 0 ELSE (Len(a) - 1) * LimbBits + SmallBits(Head(a))

\* a * 2^n
NatShl(a, n) ==
    IF a = <<>> THEN <<>>
    ELSE NatMul(a, Pow2(n % LimbBits)) \o [i \in 1..(n \div LimbBits) |-> 0]

\* the quotient of a division d, and whether d or the limbs dropped before
\* it left a remainder
Shifted(d, drop) ==
    [q    |-> d.q,
     lost |-> d.r # 0 \/ \E i \in 1..Len(drop) : drop[i] # 0]

\* a / 2^n rounded down, and whether a set bit was dropped
NatShr(a, n) ==
    LET k == n \div LimbBits
    IN  Shifted(NatDiv(IF k >= Len(a) THEN <<>> ELSE SubSeq(a, 1, Len(a) - k),
                       Pow2(n % LimbBits)),
                IF k >= Len(a) THEN a ELSE SubSeq(a, Len(a) - k + 1, Len(a)))

\* h.q with its last bit h.r rounded away: up when more than a half is
\* dropped, and to the even neighbour when just a half is
RoundHalf(h, more) ==
    IF h.r = 1 /\ (more \/ NatOdd(h.q)) THEN NatAdd(h.q, <<1>>) ELSE h.q

\* s.q / 2 rounded to the nearest integer
RoundLast(s, sticky) == RoundHalf(NatDiv(s.q, 2), sticky \/ s.lost)

\* a / 2^n (n >= 1) rounded to the nearest integer, a tie to the even one;
\* sticky says that a stands for a value slightly above a
RoundShift(a, n, sticky) == RoundLast(NatShr(a, n - 1), sticky)

(***************************************************************************)
(* Python's float: an IEEE 754 binary64 number.  A finite value is         *)
(* m * 2^e with m a natural number below 2^53 that is odd (m = <<>>, e = 0 *)
(* for zero); the result of every operation is the exact result rounded to *)
(* the nearest such number, a tie to the even one, and is inf beyond the   *)
(* largest.  Negative numbers and nan do not arise.                        *)
(***************************************************************************)
MantBits == 53      \* bits of a mantissa
MinExp == -1074     \* the exponent of the smallest positive value
MaxExp == 1024      \* values reach up to, not including, 2^MaxExp

Zero == [inf |-> FALSE, m |-> <<>>, e |-> 0]
Inf == [inf |-> TRUE, m |-> <<>>, e |-> 0]

\* the number of factors 2 of an integer n > 0
RECURSIVE TrailingZeros(_)
TrailingZeros(n) == IF n % 2 = 1 THEN 0 ELSE 1 + TrailingZeros(n \div 2)

\* m * 2^e with the factors 2 of m moved into e
RECURSIVE Canon(_, _)
Canon(m, e) ==
    IF m = <<>> THEN Zero
    ELSE IF Last(m) = 0 THEN Canon(Front(m), e + LimbBits)
    ELSE LET z == TrailingZeros(Last(m))
         IN  [inf |-> FALSE, m |-> NatDiv(m, Pow2(z)).q, e |-> e + z]

\* m * 2^x as a float, inf when it is beyond the largest
Finite(m, x) == IF NatBits(m) + x > MaxExp THEN Inf ELSE Canon(m, x)

\* a * 2^e with the last bit kept that of 2^t
RoundAt(a, e, sticky, t) ==
    Finite(IF t > e THEN RoundShift(a, t - e, sticky) ELSE a,
           IF t > e THEN t ELSE e)

\* the exponent of the last bit a float holds of a * 2^e: MantBits bits
\* are kept, and none below 2^MinExp
LastBit(a, e) ==
    IF NatBits(a) + e - MantBits > MinExp
    THEN NatBits(a) + e - MantBits ELSE MinExp

\* the float nearest to a * 2^e (or slightly above it, when sticky)
Round(a, e, sticky) ==
    IF a = <<>> THEN Zero ELSE RoundAt(a, e, sticky, LastBit(a, e))

\* float(n) for an integer n >= 0
Num(n) == Round(Nat15(n), 0, FALSE)

\* a + b
NumAdd(a, b) ==
    IF a.inf \/ b.inf THEN Inf
    ELSE LET e == IF a.e < b.e THEN a.e ELSE b.e
         IN  Round(NatAdd(NatShl(a.m, a.e - e), NatShl(b.m, b.e - e)),
                   e, FALSE)

\* a * k for an integer 0 <= k < LimbBase
NumMul(a, k) == IF a.inf THEN Inf ELSE Round(NatMul(a.m, k), a.e, FALSE)

\* -1, 0 or 1 as a < b, a = b, a > b
NumCmp(a, b) ==
    IF a.inf \/ b.inf
    THEN (IF a.inf = b.inf THEN 0 ELSE IF b.inf THEN -1 ELSE 1)
    ELSE LET e == IF a.e < b.e THEN a.e ELSE b.e
         IN  NatCmp(NatShl(a.m, a.e - e), NatShl(b.m, b.e - e))

NumGT(a, b) == NumCmp(a, b) = 1

\* int(a) for a finite a: the whole part, a natural number
int(a) == IF a.e >= 0 THEN NatShl(a.m, a.e) ELSE NatShr(a.m, -a.e).q

(***************************************************************************)
(* Python's str and float operations, on sequences of characters.          *)
(***************************************************************************)
\* A character is one of the 256 of Latin-1, which is what a string of
\* this module can hold.
\* the characters float() reads as decimal digits
DecimalDigits == {"0", "1", "2", "3", "4", "5", "6", "7", "8", "9"}

\* the characters c with c.isdigit(): the decimal digits and the
\* superscripts
Digits == DecimalDigits \cup {"¹", "²", "³"}

DigitVal(c) ==
    CASE c = "0" -> 0 [] c = "1" -> 1 [] c = "2" -> 2 [] c = "3" -> 3
      [] c = "4" -> 4 [] c = "5" -> 5 [] c = "6" -> 6 [] c = "7" -> 7
      [] c = "8" -> 8 [] c = "9" -> 9

\* s.replace(c, '')
Remove(s, c) == SelectSeq(s, LAMBDA ch : ch # c)

\* s.isdigit(): non-empty and digits only
isdigit(s) == s # <<>> /\ \A i \in 1..Len(s) : s[i] \in Digits

\* s.endswith(c) for a one-character c
endswith(s, c) == s # <<>> /\ s[Len(s)] = c

\* s[:-1]
DropLast(s) == SubSeq(s, 1, Len(s) - 1)

CountOf(s, c) == Len(SelectSeq(s, LAMBDA ch : ch = c))

\* the position of the first c in s, or Len(s) + 1
IndexOf(s, c) ==
    IF \A i \in 1..Len(s) : s[i] # c THEN Len(s) + 1
    ELSE CHOOSE i \in 1..Len(s) :
            s[i] = c /\ \A j \in 1..(i - 1) : s[j] # c

RECURSIVE Pow10(_)
Pow10(n) == IF n = 0 THEN 1 ELSE 10 * Pow10(n - 1)

\* the integer a string of at most 4 decimal digits spells
RECURSIVE SmallValue(_)
SmallValue(s) ==
    IF s = <<>> THEN 0 ELSE 10 * SmallValue(DropLast(s)) + DigitVal(Last(s))

\* the natural number that the digits read so far, n, and the decimal
\* digits s after them spell; the digits are read 4 at a time
RECURSIVE DigitsFrom(_, _)
DigitsFrom(n, s) ==
    IF NatBits(n) >= 0 /\ s = <<>> THEN n
    ELSE LET k == IF Len(s) < 4 THEN Len(s) ELSE 4
         IN  DigitsFrom(NatAdd(NatMul(n, Pow10(k)),
                               Nat15(SmallValue(SubSeq(s, 1, k)))),
                        SubSeq(s, k + 1, Len(s)))

\* the natural number a string of decimal digits spells
DigitsValue(s) == DigitsFrom(<<>>, s)

\* a / 10^f rounded down, and whether a division left a remainder; the
\* divisions are by 10^4 at most
RECURSIVE DivPow10(_, _, _)
DivPow10(a, f, lost) ==
    IF f = 0 THEN [q |-> a, lost |-> lost]
    ELSE LET k == IF f < 4 THEN f ELSE 4
             d == NatDiv(a, Pow10(k))
         IN  IF d.r # 0 THEN DivPow10(d.q, f - k, TRUE)
             ELSE DivPow10(d.q, f - k, lost)

\* the float nearest to d.q / 2^places, or slightly above when d.lost
RoundQuotient(d, places) == Round(d.q, -places, d.lost)

\* the float nearest to n / 10^f: the quotient is taken with 64 + 4 f
\* binary places, more than a mantissa holds
NearestFloat(n, f) ==
    RoundQuotient(DivPow10(NatShl(n, 64 + 4 * f), f, FALSE), 64 + 4 * f)

\* a call either returns a value or raises an exception; Pending is a call
\* not yet made
Pending == [raised |-> FALSE, pending |-> TRUE]
Returned(v) == [raised |-> FALSE, value |-> v]
Raised(e) == [raised |-> TRUE, error |-> e]
ValueError == "could not convert string to float"

\* float(s): decimal digits with at most one decimal point and at least
\* one digit are the only accepted form that the callers' guards let
\* through; anything else, a superscript digit included, is a ValueError
float(s) ==
    IF /\ \A i \in 1..Len(s) : s[i] \in DecimalDigits \cup {"."}
       /\ CountOf(s, ".") <= 1
       /\ Remove(s, ".") # <<>>
    THEN LET frac == Len(s) - IndexOf(s, ".")
             f    == IF frac < 0 THEN 0 ELSE frac
         IN  Returned(NearestFloat(DigitsValue(Remove(s, ".")), f))
    ELSE Raised(ValueError)

\* x * 1024 * ... * 1024 (n factors), propagating the exception of x
RECURSIVE Times1024(_, _)
Times1024(x, n) ==
    IF x.raised \/ n = 0 THEN x
    ELSE Times1024(Returned(NumMul(x.value, 1024)), n - 1)

(***************************************************************************)
(* AWSSSHClient._parse_size                                                *)
(***************************************************************************)
_parse_size(s) ==
    IF s = <<>>
       \/ ~isdigit(Remove(Remove(Remove(Remove(s, "."), "K"), "M"), "G"))
    THEN Returned(Zero)
    ELSE IF endswith(s, "K") THEN Times1024(float(DropLast(s)), 1)
    ELSE IF endswith(s, "M") THEN Times1024(float(DropLast(s)), 2)
    ELSE IF endswith(s, "G") THEN Times1024(float(DropLast(s)), 3)
    ELSE IF isdigit(Remove(s, ".")) THEN float(s)
    ELSE Returned(Zero)

(***************************************************************************)
(* More of Python's str: strip, split, startswith, join.                   *)
(***************************************************************************)
\* the characters c with c.isspace(): tab, line feed, vertical tab, form
\* feed, carriage return, the separators FS GS RS US, space, next line, and
\* no-break space
Whitespace ==
    {"\t", "\n", "", "\f", "\r", "", "", "", "", " ",
     "", " "}

RECURSIVE lstrip(_)
lstrip(s) ==
    IF s # <<>> /\ Head(s) \in Whitespace THEN lstrip(Tail(s)) ELSE s

RECURSIVE rstrip(_)
rstrip(s) ==
    IF s # <<>> /\ Last(s) \in Whitespace THEN rstrip(Front(s)) ELSE s

\* s.strip()
strip(s) == rstrip(lstrip(s))

\* s.split(c) for a one-character c: the pieces between the c's, empty
\* pieces included
RECURSIVE split_on(_, _)
split_on(s, c) ==
    LET i == IndexOf(s, c)
    IN  IF i > Len(s) THEN <<s>>
        ELSE <<SubSeq(s, 1, i - 1)>> \o split_on(SubSeq(s, i + 1, Len(s)), c)

\* the length of the run of non-whitespace characters s starts with
RECURSIVE WordLen(_)
WordLen(s) ==
    IF s = <<>> \/ Head(s) \in Whitespace THEN 0 ELSE 1 + WordLen(Tail(s))

\* s.split(): the runs of non-whitespace characters
RECURSIVE split(_)
split(s) ==
    LET t == lstrip(s)
        n == WordLen(t)
    IN  IF t = <<>> THEN <<>>
        ELSE <<SubSeq(t, 1, n)>> \o split(SubSeq(t, n + 1, Len(t)))

\* s.startswith(p)
startswith(s, p) == Len(s) >= Len(p) /\ SubSeq(s, 1, Len(p)) = p

\* sep.join(parts)
RECURSIVE join(_, _)
join(sep, parts) ==
    IF parts = <<>> THEN <<>>
    ELSE IF Len(parts) = 1 THEN parts[1]
    ELSE parts[1] \o sep \o join(sep, Tail(parts))

(***************************************************************************)
(* AWSSSHClient.execute_command and AWSSSHClient.list_directory            *)
(***************************************************************************)
None == "None"
Unconnected == "unconnected"    \* an SSHClient that has no session
Connected == "connected"        \* an SSHClient with a session
Open == "open"                  \* an SFTP client on that session

\* execute_command: raises when self.client is unset; otherwise the
\* remote's stdout and exit code, or exit code -1 when exec_command
\* raises, as it does without a session
execute_command(c, r) ==
    IF c = None THEN Raised("Not connected to server")
    ELSE IF c # Connected \/ r.fails
    THEN Returned([stdout |-> <<>>, exit_code |-> -1])
    ELSE Returned([stdout |-> r.stdout, exit_code |-> r.exit_code])

(***************************************************************************)
(* AWSSSHClient.connect, and the lookup of a method on the client          *)
(***************************************************************************)
\* what can happen in connect when no signal arrives: the key file is
\* missing, the key does not load, the connection fails, open_sftp fails,
\* or all succeed
Completions == {"no_key", "bad_key", "refused", "no_sftp", "ok"}

\* where a KeyboardInterrupt can end connect, which catches Exception only:
\* before self.client is assigned, before client.connect has made the
\* session, before self.sftp is assigned, or before the return
Interrupts ==
    {"interrupt_start", "interrupt_connecting", "interrupt_sftp",
     "interrupt_end"}

ConnectOutcomes == Completions \cup Interrupts

\* connect on a client whose fields are c and s: self.client is a new
\* SSHClient from the first statement on, self.sftp is assigned after
\* open_sftp, and True is returned only after that; out is what the call
\* returns or raises
connect(outcome, c, s) ==
    CASE outcome \in {"no_key", "bad_key", "refused"} ->
            [client |-> Unconnected, sftp |-> s, out |-> Returned(FALSE)]
      [] outcome = "no_sftp" ->
            [client |-> Connected, sftp |-> s, out |-> Returned(FALSE)]
      [] outcome = "ok" ->
            [client |-> Connected, sftp |-> Open, out |-> Returned(TRUE)]
      [] outcome = "interrupt_start" ->
            [client |-> c, sftp |-> s, out |-> Raised("KeyboardInterrupt")]
      [] outcome = "interrupt_connecting" ->
            [client |-> Unconnected, sftp |-> s,
             out |-> Raised("KeyboardInterrupt")]
      [] outcome = "interrupt_sftp" ->
            [client |-> Connected, sftp |-> s,
             out |-> Raised("KeyboardInterrupt")]
      [] outcome = "interrupt_end" ->
            [client |-> Connected, sftp |-> Open,
             out |-> Raised("KeyboardInterrupt")]

\* the connect() results recorded so far, with that of one more call: a
\* call that raises returns nothing
Recorded(cs, out) == IF out.raised THEN cs ELSE Append(cs, out.value)

\* the methods class AWSSSHClient defines
Methods ==
    {"__init__", "__enter__", "__exit__", "connect", "execute_command",
     "list_directory", "get_file_content", "download_file", "upload_file",
     "change_directory", "get_system_info", "get_directory_summary",
     "_parse_size"}

\* the attributes __init__ sets on the instance
InstanceAttributes ==
    {"hostname", "username", "key_path", "port", "client", "sftp"}

\* what a class statement adds to the class beside its methods
ClassAttributes == {"__dict__", "__doc__", "__module__", "__weakref__"}

\* what the class inherits from object, its only base
ObjectAttributes ==
    {"__class__", "__delattr__", "__dir__", "__doc__", "__eq__",
     "__format__", "__ge__", "__getattribute__", "__getstate__", "__gt__",
     "__hash__", "__init__", "__init_subclass__", "__le__", "__lt__",
     "__ne__", "__new__", "__reduce__", "__reduce_ex__", "__repr__",
     "__setattr__", "__sizeof__", "__str__", "__subclasshook__"}

\* the attribute lookup self.<name>: the instance, the class and object
\* are searched, and a name none of them has is an AttributeError
lookup(name) ==
    IF name \in InstanceAttributes \cup Methods \cup ClassAttributes
                   \cup ObjectAttributes
    THEN Returned(name)
    ELSE Raised("AttributeError")

\* file_info with the name cut at its first word
file_info_first_word(parts) ==
    [permissions |-> parts[1], links |-> parts[2], owner |-> parts[3],
     group |-> parts[4], size |-> parts[5], month |-> parts[6],
     day |-> parts[7], time |-> parts[8], name |-> parts[9]]

file_info(parts) ==
    [permissions |-> parts[1], links |-> parts[2], owner |-> parts[3],
     group |-> parts[4], size |-> parts[5], month |-> parts[6],
     day |-> parts[7], time |-> parts[8],
     name |-> join(<<" ">>, SubSeq(parts, 9, Len(parts)))]

\* the loop over the lines: one file_info per non-blank line of at least
\* 9 parts
RECURSIVE parse_lines(_)
parse_lines(lines) ==
    IF lines = <<>> THEN <<>>
    ELSE LET line  == Head(lines)
             parts == split(line)
         IN  (IF strip(line) # <<>> /\ Len(parts) >= 9
              THEN <<file_info(parts)>> ELSE <<>>)
             \o parse_lines(Tail(lines))

\* skip_total dropping every line that starts with 'total'
skip_total_everywhere(lines) ==
    SelectSeq(lines, LAMBDA l : ~startswith(l, <<"t", "o", "t", "a", "l">>))

\* lines[0].startswith('total'): skip the total line if present
skip_total(lines) ==
    IF lines # <<>> /\ startswith(lines[1], <<"t", "o", "t", "a", "l">>)
    THEN Tail(lines) ELSE lines

\* list_directory parsing stdout whatever the exit code
list_directory_any_exit(c, r) ==
    LET result == execute_command(c, r)
    IN  IF result.raised THEN <<>>
        ELSE parse_lines(skip_total(split_on(strip(result.value.stdout), "\n")))

list_directory(c, r) ==
    LET result == execute_command(c, r)
    IN  IF result.raised THEN <<>>
        ELSE IF result.value.exit_code # 0 THEN <<>>
        ELSE parse_lines(skip_total(split_on(strip(result.value.stdout), "\n")))

(***************************************************************************)
(* AWSSSHClient.get_directory_summary                                      *)
(***************************************************************************)
DigitChar(d) == <<"0", "1", "2", "3", "4", "5", "6", "7", "8", "9">>[d + 1]

\* the decimal digits of an integer k >= 0
RECURSIVE SmallStr(_)
SmallStr(k) ==
    IF k < 10 THEN <<DigitChar(k)>>
    ELSE SmallStr(k \div 10) \o <<DigitChar(k % 10)>>

RECURSIVE IntStr(_)

\* the digits of 10000 * d.q + d.r
IntStrFrom(d) ==
    IF d.q = <<>> THEN SmallStr(d.r)
    ELSE IntStr(d.q)
         \o <<DigitChar(d.r \div 1000), DigitChar((d.r \div 100) % 10),
              DigitChar((d.r \div 10) % 10), DigitChar(d.r % 10)>>

\* str(n) for a natural number n: its decimal digits, taken 4 at a time
IntStr(n) == IntStrFrom(NatDiv(n, 10000))

\* x / 1024^k, the division by the int 1024 * ... * 1024
DivPow1024(x, k) == IF x.inf THEN Inf ELSE Round(x.m, x.e - 10 * k, FALSE)

\* the whole part and the tenth of d = divmod(tenths, 10)
WithPoint(d) == IntStr(d.q) \o <<".", DigitChar(d.r)>>

\* the tenths of m * 2^e, to the nearest integer
Tenths(m, e) == IF e >= 0 THEN NatShl(m, e) ELSE RoundShift(m, -e, FALSE)

\* f"{y:.1f}" for a float y
OneDecimal(y) ==
    IF y.inf THEN <<"i", "n", "f">>
    ELSE WithPoint(NatDiv(Tenths(NatMul(y.m, 10), y.e), 10))

\* f"{x / 1024^k:.1f}": the quotient, a float, written with one decimal;
\* its exact value is rounded, a tie to the even digit
fixed1(x, k) == OneDecimal(DivPow1024(x, k))

\* the floats 1024, 1024 * 1024 and 1024 * 1024 * 1024
KiB == [inf |-> FALSE, m |-> <<1>>, e |-> 10]
MiB == [inf |-> FALSE, m |-> <<1>>, e |-> 20]
GiB == [inf |-> FALSE, m |-> <<1>>, e |-> 30]

\* human_readable with thresholds that are met, not exceeded
human_readable_ge(t) ==
    IF NumCmp(t, GiB) >= 0 THEN fixed1(t, 3) \o <<"G", "B">>
    ELSE IF NumCmp(t, MiB) >= 0 THEN fixed1(t, 2) \o <<"M", "B">>
    ELSE IF NumCmp(t, KiB) >= 0 THEN fixed1(t, 1) \o <<"K", "B">>
    ELSE IntStr(int(t)) \o <<" ", "b", "y", "t", "e", "s">>

\* lines 310-318: convert to human readable format
human_readable(t) ==
    IF NumGT(t, GiB) THEN fixed1(t, 3) \o <<"G", "B">>
    ELSE IF NumGT(t, MiB) THEN fixed1(t, 2) \o <<"M", "B">>
    ELSE IF NumGT(t, KiB) THEN fixed1(t, 1) \o <<"K", "B">>
    ELSE IntStr(int(t)) \o <<" ", "b", "y", "t", "e", "s">>

\* lines 298-308: what one size token adds to the total
size_of(s) ==
    IF isdigit(Remove(s, "."))
    THEN IF endswith(s, "K") THEN Times1024(float(DropLast(s)), 1)
         ELSE IF endswith(s, "M") THEN Times1024(float(DropLast(s)), 2)
         ELSE IF endswith(s, "G") THEN Times1024(float(DropLast(s)), 3)
         ELSE float(s)
    ELSE Returned(Zero)

RECURSIVE sum_sizes(_, _)

\* lines 298-308: one round of the loop, x what the size token is worth
add_size(fs, acc, x) ==
    IF x.raised THEN x ELSE sum_sizes(fs, NumAdd(acc, x.value))

\* lines 295-308: the loop; the first exception ends it
sum_sizes(fs, acc) ==
    IF fs = <<>> THEN Returned(acc)
    ELSE add_size(Tail(fs), acc, size_of(Head(fs).size))

\* total_dirs counting every entry that is not a regular file
total_dirs_not_regular(fs) ==
    Len(SelectSeq(fs, LAMBDA f : ~startswith(f.permissions, <<"-">>)))

\* line 291: the entries whose permissions start with 'd'
total_dirs(fs) ==
    Len(SelectSeq(fs, LAMBDA f : startswith(f.permissions, <<"d">>)))

\* x placed behind the entries of s whose key is at least its own
RECURSIVE insert_desc(_, _)
insert_desc(s, x) ==
    IF s = <<>> THEN <<x>>
    ELSE IF NumCmp(Head(s).key, x.key) >= 0
         THEN <<Head(s)>> \o insert_desc(Tail(s), x)
    ELSE <<x>> \o s

RECURSIVE sort_desc(_)
sort_desc(s) ==
    IF s = <<>> THEN <<>> ELSE insert_desc(sort_desc(Front(s)), Last(s))

TopN == 3

\* the items of the first TopN entries of s
top(s) ==
    [i \in 1..(IF Len(s) < TopN THEN Len(s) ELSE TopN) |-> s[i].item]

\* the entries fs sorted by their keys, the largest first; the first key
\* that is an exception is raised
ranked(fs, keys) ==
    IF \E i \in 1..Len(fs) : keys[i].raised
    THEN keys[CHOOSE i \in 1..Len(fs) :
                 /\ keys[i].raised
                 /\ \A j \in 1..(i - 1) : ~keys[j].raised]
    ELSE Returned(top(sort_desc([i \in 1..Len(fs) |->
                                   [key |-> keys[i].value, item |-> fs[i]]])))

\* line 327: sorted(files, key=_parse_size, reverse=True)[:3]; a key that
\* raises ends the sort
largest_files(fs) ==
    ranked(fs, [i \in 1..Len(fs) |-> _parse_size(fs[i].size)])

Inaccessible(e) == [accessible |-> FALSE, error |-> e]

\* lines 310-330: the result for the total of the loop and the sorted
\* entries, or for the exception either of them is
summary_of(fs, total, largest) ==
    IF total.raised THEN Inaccessible(total.error)
    ELSE IF largest.raised THEN Inaccessible(largest.error)
    ELSE [accessible    |-> TRUE,
          total_items   |-> Len(fs),
          directories   |-> total_dirs(fs),
          files         |-> Len(fs) - total_dirs(fs),
          total_size    |-> human_readable(total.value),
          largest_files |-> largest.value]

\* the path is echoed into the result and is left out here
get_directory_summary(fs) ==
    IF fs = <<>> THEN Inaccessible("Directory empty or access denied")
    ELSE summary_of(fs, sum_sizes(fs, Zero), largest_files(fs))

(***************************************************************************)
(* The size parser on its own: every token over a small alphabet.          *)
(***************************************************************************)
\* digits, the point, the suffixes, a letter, and a superscript digit
TokenAlphabet == {"0", "1", "5", ".", "K", "M", "G", "x", "²"}

SeqsUpTo(S, n) == UNION {[1..k -> S] : k \in 0..n}

Tokens == SeqsUpTo(TokenAlphabet, MaxTokLen)

\* the variables a specification leaves alone
IdleSize == size_str = <<>> /\ parsed = Pending
IdleList == client = None /\ rows = <<>> /\ remote = None /\ files = Pending
IdleSum == total_size = Pending /\ summary = Pending
IdleUse ==
    /\ sftp = None /\ mode = None /\ pc = None /\ exc = None
    /\ returned = Pending /\ commands = 0 /\ cause = None
    /\ closing = Pending /\ connects = <<>>

InitSize ==
    /\ size_str \in Tokens
    /\ parsed = Pending
    /\ IdleList /\ IdleSum /\ IdleUse

ParseSize ==
    /\ parsed = Pending
    /\ parsed' = _parse_size(size_str)
    /\ UNCHANGED <<size_str, listVars, sumVars, useVars>>

NextSize == ParseSize

SpecSize == InitSize /\ [][NextSize]_vars

(***************************************************************************)
(* The listing parser on its own: listing texts of a few lines.            *)
(***************************************************************************)
SP == <<" ">>
NL == <<"\n">>

\* a line of a listing: its text, and the fields the text holds
Line(fields, text) == [fields |-> fields, text |-> text]

\* the fields of a row joined by single spaces
Row(fields) == Line(fields, join(SP, fields))

\* well-formed rows: 9 fields, and a name of three words
FieldsA == <<<<"-">>, <<"1">>, <<"u">>, <<"g">>, <<"5", "1", "2">>,
             <<"J">>, <<"1">>, <<"t">>, <<"a">>>>
FieldsB == <<<<"d">>, <<"2">>, <<"u">>, <<"g">>, <<"4", ".", "0", "K">>,
             <<"F">>, <<"2">>, <<"t">>, <<"m", "y">>, <<"r">>, <<"f">>>>
\* a row whose permissions field is the word "total"
FieldsTotal == <<<<"t", "o", "t", "a", "l">>, <<"1">>, <<"u">>, <<"g">>,
                 <<"7">>, <<"M">>, <<"3">>, <<"t">>, <<"z">>>>

\* FieldsA indented and spaced out with runs of blanks and a tab
RowSpaced ==
    Line(FieldsA, <<" ">> \o join(<<" ", " ">>, FieldsA) \o <<"\t">>)

\* FieldsB separated by vertical tabs, a form feed and no-break spaces,
\* with a next-line and a unit separator behind
RowFeeds ==
    Line(FieldsB, join(<<"">>, SubSeq(FieldsB, 1, 8)) \o <<"\f">>
                  \o join(<<" ">>, SubSeq(FieldsB, 9, 11))
                  \o <<"", "">>)

\* the block-count line of ls, a row of 4 fields only, two blank lines
TotalLine == Row(<<<<"t", "o", "t", "a", "l">>, <<"4", "8">>>>)
RowShort == Row(<<<<"-">>, <<"1">>, <<"u">>, <<"g">>>>)
BlankLines == {Line(<<>>, <<>>), Line(<<>>, <<" ">>)}

WellFormedRows == {Row(FieldsA), Row(FieldsB), RowSpaced, RowFeeds}
Lines == WellFormedRows
         \cup {TotalLine, Row(FieldsTotal), RowShort} \cup BlankLines

MaxLines == 3

\* the text of the lines ls, with or without a newline after the last
ListingText(ls, e) == join(NL, [i \in 1..Len(ls) |-> ls[i].text]) \o e

ExitCodes == {0, 1, 2}

\* the remote runs the command and prints text, or exec_command fails
Remotes(text) ==
    [stdout : {text}, exit_code : ExitCodes, fails : {FALSE}]
    \cup [stdout : {<<>>}, exit_code : {0}, fails : {TRUE}]

InitList ==
    /\ client \in {None, Connected}
    /\ rows \in SeqsUpTo(Lines, MaxLines)
    /\ \E e \in {<<>>, NL} : remote \in Remotes(ListingText(rows, e))
    /\ files = Pending
    /\ IdleSize /\ IdleSum /\ IdleUse

ListDirectory ==
    /\ files = Pending
    /\ files' = Returned(list_directory(client, remote))
    /\ UNCHANGED <<client, rows, remote, sizeVars, sumVars, useVars>>

NextList == ListDirectory

SpecList == InitList /\ [][NextList]_vars

(***************************************************************************)
(* The aggregation: listings whose rows differ in size and permissions.    *)
(***************************************************************************)
\* a well-formed row of the given permissions, size token and name
FileRow(perm, size, name) ==
    Row(<<perm, <<"1">>, <<"u">>, <<"g">>, size, <<"J">>, <<"1">>, <<"t">>,
          name>>)

\* rows for the counts and the ranking: sizes that tie in bytes (1K and
\* 1024), a token worth nothing (a device's "8,"), a token of two decimal
\* points
RankRows ==
    {FileRow(<<"-">>, <<"1", "K">>, <<"a">>),
     FileRow(<<"d">>, <<"3", "M">>, <<"b">>),
     FileRow(<<"-">>, <<"5", "0", "0">>, <<"c">>),
     FileRow(<<"l">>, <<"2", "M">>, <<"e">>),
     FileRow(<<"d">>, <<"1", "0", "2", "4">>, <<"f">>),
     FileRow(<<"c">>, <<"8", ",">>, <<"h">>),
     FileRow(<<"-">>, <<"1", ".", "2", ".", "3">>, <<"i">>),
     FileRow(<<"-">>, <<"1", "K", "K">>, <<"j">>)}

\* rows for the total: plain byte counts around 1024, 1024^2 and 1024^3,
\* fractions that no float holds exactly, and a superscript digit
SumRows ==
    {FileRow(<<"-">>, <<"0", ".", "2">>, <<"q">>),
     FileRow(<<"-">>, <<"0", ".", "7">>, <<"r">>),
     FileRow(<<"-">>, <<"0", ".", "1">>, <<"s">>),
     FileRow(<<"-">>, <<"1", "0", "7", "5", ".", "2">>, <<"v">>),
     FileRow(<<"-">>, <<"²">>, <<"w">>),
     FileRow(<<"-">>, <<"1">>, <<"k">>),
     FileRow(<<"-">>, <<"2">>, <<"l">>),
     FileRow(<<"-">>, <<".", "5">>, <<"m">>),
     FileRow(<<"-">>, <<"1", "0", "2", "3">>, <<"n">>),
     FileRow(<<"-">>, <<"1", "0", "4", "8", "5", "7", "5">>, <<"o">>),
     FileRow(<<"-">>, <<"1", "0", "7", "3", "7", "4", "1", "8", "2", "3">>,
             <<"p">>)}

MaxRanked == 4
MaxSummed == 3

InitSummary ==
    /\ client = Connected
    /\ rows \in SeqsUpTo(RankRows, MaxRanked) \cup SeqsUpTo(SumRows, MaxSummed)
    /\ remote \in Remotes(ListingText(<<TotalLine>> \o rows, NL))
    /\ files = Pending
    /\ IdleSize /\ IdleSum /\ IdleUse

GetDirectorySummary ==
    /\ summary = Pending
    /\ LET fs == list_directory(client, remote)
       IN  /\ files' = Returned(fs)
           /\ total_size' = (IF fs = <<>> THEN Pending ELSE sum_sizes(fs, Zero))
           /\ summary' = get_directory_summary(fs)
    /\ UNCHANGED <<client, rows, remote, sizeVars, useVars>>

NextSummary == GetDirectorySummary

SpecSummary == InitSummary /\ [][NextSummary]_vars

(***************************************************************************)
(* The use of a client: main's try / except / finally, and a with block.   *)
(***************************************************************************)
MaxCommands == 3

\* the variables the use of a client leaves alone
restVars == <<rows, remote, files, sizeVars, sumVars>>

InitUse ==
    /\ mode \in {"main", "with"}
    /\ pc = "start"
    /\ client = None /\ sftp = None
    /\ exc = None /\ cause = None
    /\ returned = Pending /\ commands = 0 /\ closing = Pending
    /\ connects = <<>>
    /\ rows = <<>> /\ remote = None /\ files = Pending
    /\ IdleSize /\ IdleSum

\* main, line 479: connect.  A KeyboardInterrupt out of connect, or one
\* taken before it is called, is caught at line 568
MainConnect ==
    /\ mode = "main" /\ pc = "start"
    /\ \E o \in ConnectOutcomes :
          LET c == connect(o, client, sftp)
          IN  /\ client' = c.client
              /\ sftp' = c.sftp
              /\ connects' = Recorded(connects, c.out)
              /\ IF c.out.raised
                 THEN pc' = "handler" /\ cause' = c.out.error
                 ELSE IF c.out.value
                 THEN pc' = "body" /\ UNCHANGED cause
                 ELSE pc' = "failed" /\ UNCHANGED cause
    /\ UNCHANGED <<mode, exc, returned, commands, closing, restVars>>

\* main, lines 480-481, after connect() returned False: the error is
\* logged and sys.exit(1) raises SystemExit, which no clause catches; a
\* KeyboardInterrupt during the log call is caught at line 568 and
\* sys.exit is not reached
MainExit ==
    /\ mode = "main" /\ pc = "failed"
    /\ \/ /\ exc' = "SystemExit" /\ cause' = "SystemExit"
          /\ pc' = "finally"
       \/ /\ cause' = "KeyboardInterrupt" /\ UNCHANGED exc
          /\ pc' = "handler"
    /\ UNCHANGED <<client, sftp, mode, returned, commands, closing, connects,
                   restVars>>

\* __enter__, lines 44-47: connect, or raise; the block is entered only on
\* success.  What connect raises leaves __enter__ too, and after a
\* connect() that returned False a KeyboardInterrupt can be taken at line
\* 47 in place of the exception raised there
Enter ==
    /\ mode = "with" /\ pc = "start"
    /\ \E o \in ConnectOutcomes :
          LET c == connect(o, client, sftp)
          IN  /\ client' = c.client
              /\ sftp' = c.sftp
              /\ connects' = Recorded(connects, c.out)
              /\ IF c.out.raised
                 THEN pc' = "done" /\ exc' = c.out.error
                 ELSE IF c.out.value
                 THEN pc' = "body" /\ UNCHANGED exc
                 ELSE /\ pc' = "done"
                      /\ exc' \in {"Failed to establish SSH connection",
                                   "KeyboardInterrupt"}
    /\ UNCHANGED <<mode, returned, commands, cause, closing, restVars>>

\* an operation of the block runs a command
RunCommand ==
    /\ pc = "body" /\ commands < MaxCommands
    /\ \E r \in Remotes(<<"o", "k">>) : returned' = execute_command(client, r)
    /\ commands' = commands + 1
    /\ UNCHANGED <<client, sftp, mode, pc, exc, cause, closing, connects,
                   restVars>>

\* the block ends: it completes, an operation raises, or the user
\* interrupts.  In main an exception goes to its handler (lines 568-572);
\* a with block hands it to __exit__
Leave ==
    /\ pc = "body"
    /\ \E e \in {"return", "Exception", "KeyboardInterrupt"} :
          /\ cause' = e
          /\ exc' = (IF mode = "with" /\ e # "return" THEN e ELSE exc)
          /\ pc' = (IF mode = "main" /\ e # "return" THEN "handler"
                    ELSE "finally")
    /\ UNCHANGED <<client, sftp, mode, returned, commands, closing, connects,
                   restVars>>

\* main, lines 568-572: the handler logs and the exception is over; a
\* KeyboardInterrupt during its log call is caught by no clause and goes
\* on past the finally block
MainHandler ==
    /\ mode = "main" /\ pc = "handler"
    /\ \/ UNCHANGED exc
       \/ exc' = "KeyboardInterrupt"
    /\ pc' = "finally"
    /\ UNCHANGED <<client, sftp, mode, returned, commands, cause, closing,
                   connects, restVars>>

\* main, lines 573-580: ssh_client.close() in a try whose except Exception
\* logs and passes.  A KeyboardInterrupt during that log call (line 579),
\* or one taken before close is looked up (line 576), leaves the finally
\* block and replaces the exception in flight
MainFinally ==
    /\ mode = "main" /\ pc = "finally"
    /\ \/ /\ closing' = lookup("close")
          /\ UNCHANGED exc
       \/ /\ closing' = lookup("close")
          /\ closing'.raised
          /\ exc' = "KeyboardInterrupt"
       \/ /\ UNCHANGED closing
          /\ exc' = "KeyboardInterrupt"
    /\ pc' = "done"
    /\ UNCHANGED <<client, sftp, mode, returned, commands, cause, connects,
                   restVars>>

\* __exit__, lines 49-51: self.close(); what it raises replaces the
\* exception of the block.  A KeyboardInterrupt taken as __exit__ is
\* entered does so before close is looked up
Exit ==
    /\ mode = "with" /\ pc = "finally"
    /\ \/ /\ closing' = lookup("close")
          /\ exc' = (IF closing'.raised THEN closing'.error ELSE exc)
       \/ /\ UNCHANGED closing
          /\ exc' = "KeyboardInterrupt"
    /\ pc' = "done"
    /\ UNCHANGED <<client, sftp, mode, returned, commands, cause, connects,
                   restVars>>

NextUse ==
    \/ MainConnect \/ MainExit \/ Enter \/ RunCommand \/ Leave
    \/ MainHandler \/ MainFinally \/ Exit

SpecUse == InitUse /\ [][NextUse]_vars

(***************************************************************************)
(* A client driven directly: connect() and execute_command() called in any *)
(* order on one AWSSSHClient.                                              *)
(***************************************************************************)
MaxConnects == 3

\* the variables such calls leave alone
callRest == <<mode, pc, exc, cause, closing, restVars>>

\* __init__, lines 39-40: no client, no SFTP channel, nothing called yet
InitCalls ==
    /\ client = None /\ sftp = None
    /\ connects = <<>> /\ returned = Pending /\ commands = 0
    /\ mode = None /\ pc = None /\ exc = None /\ cause = None
    /\ closing = Pending
    /\ rows = <<>> /\ remote = None /\ files = Pending
    /\ IdleSize /\ IdleSum

\* a call of connect(): once it has assigned self.client, the client is
\* replaced whatever the outcome
Connect ==
    /\ Len(connects) < MaxConnects
    /\ \E o \in ConnectOutcomes :
          LET c == connect(o, client, sftp)
          IN  /\ client' = c.client
              /\ sftp' = c.sftp
              /\ connects' = Recorded(connects, c.out)
    /\ UNCHANGED <<returned, commands, callRest>>

\* a call of execute_command(), which a KeyboardInterrupt can end: it
\* catches Exception only
ExecuteCommand ==
    /\ commands < MaxCommands
    /\ \/ \E r \in Remotes(<<"o", "k">>) :
             returned' = execute_command(client, r)
       \/ returned' = Raised("KeyboardInterrupt")
    /\ commands' = commands + 1
    /\ UNCHANGED <<client, sftp, connects, callRest>>

NextCalls == Connect \/ ExecuteCommand

SpecCalls == InitCalls /\ [][NextCalls]_vars

(***************************************************************************)
(* Properties of _parse_size.                                              *)
(***************************************************************************)
Suffixes == {"K", "M", "G"}

\* the reference size function: strip at most one trailing K, M or G; a
\* remainder of digits with at most one decimal point (and a digit) is worth
\* its value times 1, 1024, 1024^2 or 1024^3; every other token is worth 0
RefBody(t) == IF t # <<>> /\ Last(t) \in Suffixes THEN Front(t) ELSE t

RefPower(t) ==
    IF t = <<>> THEN 0
    ELSE CASE Last(t) = "K" -> 1 [] Last(t) = "M" -> 2 [] Last(t) = "G" -> 3
           [] OTHER -> 0

RefNumeric(b) ==
    /\ \A i \in 1..Len(b) : b[i] \in Digits \cup {"."}
    /\ CountOf(b, ".") <= 1
    /\ \E i \in 1..Len(b) : b[i] \in Digits

RefSize(t) ==
    IF RefNumeric(RefBody(t))
    THEN Times1024(float(RefBody(t)), RefPower(t))
    ELSE Returned(Zero)

\* C2: _parse_size returns the reference size of every token and never
\* raises
C2_ParseSizeIsReference ==
    parsed # Pending => parsed = RefSize(size_str)

(***************************************************************************)
(* Properties of list_directory.                                           *)
(***************************************************************************)
\* the command ran with exit code 0 and list_directory has returned
Listed ==
    /\ files # Pending
    /\ client = Connected
    /\ ~remote.fails
    /\ remote.exit_code = 0

\* the entry a row of the given tokens stands for
EntryOf(t) ==
    [permissions |-> t[1], links |-> t[2], owner |-> t[3], group |-> t[4],
     size |-> t[5], month |-> t[6], day |-> t[7], time |-> t[8],
     name |-> join(SP, SubSeq(t, 9, Len(t)))]

\* C7: a listing of well-formed rows parses to one entry per row, in the
\* order of the rows, with tokens 0 to 7 verbatim and the name made of the
\* tokens from index 8 on joined by single spaces
C7_RoundTrip ==
    (Listed /\ \A i \in 1..Len(rows) : rows[i] \in WellFormedRows)
    => /\ Len(files.value) = Len(rows)
       /\ \A i \in 1..Len(rows) : files.value[i] = EntryOf(rows[i].fields)

C7_Witness ==
    /\ Listed
    /\ rows = <<Row(FieldsB), RowSpaced, Row(FieldsA)>>
    /\ Len(files.value) = 3
    /\ files.value[1].name = <<"m", "y", " ", "r", " ", "f">>

IsTotal(t) == t # <<>> /\ startswith(t[1], <<"t", "o", "t", "a", "l">>)

\* the index of the first non-blank line of ls, or 0
FirstNonBlank(ls) ==
    IF \A i \in 1..Len(ls) : ls[i].fields = <<>> THEN 0
    ELSE CHOOSE i \in 1..Len(ls) :
            /\ ls[i].fields # <<>>
            /\ \A j \in 1..(i - 1) : ls[j].fields = <<>>

Produces(ls, i) ==
    /\ Len(ls[i].fields) >= 9
    /\ ~(i = FirstNonBlank(ls) /\ IsTotal(ls[i].fields))

Producing(ls) ==
    SelectSeq([i \in 1..Len(ls) |-> i], LAMBDA i : Produces(ls, i))

\* C8: the entries are those of the lines that have at least 9 tokens and
\* are not a first non-blank line beginning with "total", in order; every
\* other line is dropped
C8_EntryPerLine ==
    Listed
    => /\ Len(files.value) = Len(Producing(rows))
       /\ \A k \in 1..Len(Producing(rows)) :
             files.value[k] = EntryOf(rows[Producing(rows)[k]].fields)

C8_Witness ==
    /\ Listed
    /\ rows = <<TotalLine, RowShort, Row(FieldsTotal)>>
    /\ Len(files.value) = 1
    /\ files.value[1].permissions = <<"t", "o", "t", "a", "l">>

(***************************************************************************)
(* Properties of get_directory_summary.                                    *)
(***************************************************************************)
\* get_directory_summary has returned a summary of a non-empty listing
Summarized == summary # Pending /\ summary.accessible

\* the sum of _parse_size over the entries, added in their order
RECURSIVE SumParsed(_)
SumParsed(fs) ==
    IF fs = <<>> THEN Zero
    ELSE NumAdd(SumParsed(Front(fs)), _parse_size(Last(fs).size).value)

\* C1: the byte total that is formatted is the sum of _parse_size over the
\* entries, suffixed tokens included
C1_TotalIsSumOfParsedSizes ==
    Summarized => total_size = Returned(SumParsed(files.value))

\* C3: the summary is inaccessible exactly when list_directory returned no
\* entry; malformed size tokens do not make it so
C3_InaccessibleIffEmpty ==
    summary # Pending => (~summary.accessible <=> files.value = <<>>)

EndsWithUnit(s, u) ==
    Len(s) > Len(u) /\ SubSeq(s, Len(s) - Len(u) + 1, Len(s)) = u

Bytes == <<" ", "b", "y", "t", "e", "s">>

\* C5: the unit of total_size is chosen by strict comparisons of the byte
\* total with 1024^3, 1024^2 and 1024; 1024 is "1024 bytes", 1025 is
\* "1.0KB", 1024^2 is in KB and 1024^3 in MB
C5_StrictThresholds ==
    Summarized =>
      LET t  == total_size.value
          s  == summary.total_size
          gt(n) == NumCmp(t, Num(n)) = 1
      IN  /\ EndsWithUnit(s, <<"G", "B">>) <=> gt(1073741824)
          /\ EndsWithUnit(s, <<"M", "B">>) <=> (~gt(1073741824) /\ gt(1048576))
          /\ EndsWithUnit(s, <<"K", "B">>) <=> (~gt(1048576) /\ gt(1024))
          /\ EndsWithUnit(s, Bytes) <=> ~gt(1024)
          /\ ~gt(1024) => s = IntStr(int(t)) \o Bytes
          /\ t = Num(1024) => s = <<"1", "0", "2", "4">> \o Bytes
          /\ t = Num(1025) => s = <<"1", ".", "0", "K", "B">>
          /\ t = Num(1048576) => s = <<"1", "0", "2", "4", ".", "0", "K", "B">>
          /\ t = Num(1073741824)
                => s = <<"1", "0", "2", "4", ".", "0", "M", "B">>

C5_Witness ==
    /\ Summarized
    /\ total_size = Returned(Num(1024))
    /\ Len(files.value) = 2
    /\ summary.total_size = <<"1", "0", "2", "4">> \o Bytes

KeyOf(e) == _parse_size(e.size).value

Sizes(es) == [i \in 1..Len(es) |-> es[i].size]

\* C6: for every non-empty listing the summary carries largest_files, with
\* min(3, n) entries of the listing, in non-increasing byte size, entries of
\* equal size in input order, none smaller than an entry left out; 1K, 3M,
\* 500, 2M give 3M, 2M, 1K
C6_LargestFiles ==
    (summary # Pending /\ files # Pending /\ files.value # <<>>) =>
      LET F == files.value
          L == summary.largest_files
      IN  /\ summary.accessible
          /\ Len(L) = IF Len(F) < 3 THEN Len(F) ELSE 3
          /\ \E p \in [1..Len(L) -> 1..Len(F)] :
                /\ \A k \in 1..Len(L) : L[k] = F[p[k]]
                /\ \A k, l \in 1..Len(L) :
                      k < l => \/ NumCmp(KeyOf(L[k]), KeyOf(L[l])) = 1
                               \/ /\ KeyOf(L[k]) = KeyOf(L[l])
                                  /\ p[k] < p[l]
                /\ \A j \in 1..Len(F) :
                      (\A k \in 1..Len(L) : p[k] # j)
                      => \A k \in 1..Len(L) :
                            NumCmp(KeyOf(F[j]), KeyOf(L[k])) <= 0
          /\ Sizes(F) = <<<<"1", "K">>, <<"3", "M">>, <<"5", "0", "0">>,
                          <<"2", "M">>>>
                => Sizes(L) = <<<<"3", "M">>, <<"2", "M">>, <<"1", "K">>>>

\* C9: when the command fails (a non-zero exit code, or the -1 reported when
\* exec_command itself fails) list_directory returns no entry whatever
\* stdout holds, and the summary is the inaccessible one
C9_FailedCommandNotParsed ==
    (summary # Pending /\ (remote.fails \/ remote.exit_code # 0))
    => /\ files = Returned(<<>>)
       /\ summary = Inaccessible("Directory empty or access denied")

C9_Witness ==
    /\ summary # Pending
    /\ remote.exit_code = 2
    /\ Len(rows) = 2
    /\ Len(split_on(remote.stdout, "\n")) > 2
    /\ files = Returned(<<>>)
    /\ ~summary.accessible

IsDir(e) == e.permissions # <<>> /\ e.permissions[1] = "d"

\* C10: total_items counts the entries, directories those whose permissions
\* start with 'd', files all the others; the two add up to total_items
C10_Counts ==
    Summarized =>
      LET F == files.value
          D == {i \in 1..Len(F) : IsDir(F[i])}
      IN  /\ summary.total_items = Len(F)
          /\ summary.directories = Cardinality(D)
          /\ summary.files = Cardinality((1..Len(F)) \ D)
          /\ summary.directories + summary.files = summary.total_items
          /\ summary.directories >= 0
          /\ summary.files >= 0

C10_Witness ==
    /\ Summarized
    /\ Len(files.value) = 4
    /\ \E i \in 1..4 : files.value[i].permissions = <<"l">>
    /\ \E i \in 1..4 : files.value[i].permissions = <<"c">>
    /\ summary.directories = 1
    /\ summary.files = 3

(***************************************************************************)
(* Properties of the cleanup.                                              *)
(***************************************************************************)
\* connect() has returned True
ConnectSucceeded == \E i \in 1..Len(connects) : connects[i]

\* C4: once connect() has succeeded, every way out of main's try block and
\* of a with block ends with the client and SFTP handles released, and the
\* cleanup raises nothing out of the context manager
C4_ClosedOnEveryExit ==
    (pc = "done" /\ ConnectSucceeded)
    => /\ client # Connected
       /\ sftp # Open
       /\ ~closing.raised
       /\ exc # "AttributeError"

(***************************************************************************)
(* Properties of the connection guard.                                     *)
(***************************************************************************)
\* execute_command got past its guard to self.client.exec_command: it
\* either raises at the guard or goes on to that call
ReachedExec == returned # Pending /\ ~returned.raised

\* the last execute_command was ended by a KeyboardInterrupt, about which
\* the guard says nothing
Interrupted == returned = Raised("KeyboardInterrupt")

\* C11: in any sequence of connect() and execute_command() calls,
\* execute_command raises "Not connected to server" as long as no connect()
\* call has returned True, and it gets to the remote exec step only after
\* one has
C11_RaisesUnlessConnected ==
    /\ (returned # Pending /\ ~Interrupted /\ ~ConnectSucceeded)
          => returned = Raised("Not connected to server")
    /\ ReachedExec => ConnectSucceeded

=============================================================================
